---- MODULE Spec2Model ----
(***************************************************************************)
(* The staged tweet-analysis pipeline of main.py and the three analyzers   *)
(* (sentiment, fact-check trigger, fake-news detection).                   *)
(*                                                                         *)
(* Strings whose characters the code inspects (the tweet text, fake-news   *)
(* raw labels, error messages) are tuples of one-character strings.        *)
(* Strings only compared as a whole are TLA+ strings.  Floats are          *)
(* fixed-point integers in hundredths: 0.7 is 70 and 1.0 is 100.           *)
(***************************************************************************)
EXTENDS Integers, Sequences, FiniteSets, TLC

\* Longest tweet text enumerated exhaustively over TextChars.
MaxTextLen == 3

\* Most candidates in the inner list of a sentiment or fake-news reply.
MaxPreds == 2

(***************************************************************************)
(* Python str operations, character by character                           *)
(***************************************************************************)
LowerLetters == <<"a", "b", "c", "d", "e", "f", "g", "h", "i", "j", "k", "l", "m", "n", "o", "p", "q", "r", "s", "t", "u", "v", "w", "x", "y", "z">>

UpperLetters == <<"A", "B", "C", "D", "E", "F", "G", "H", "I", "J", "K", "L", "M", "N", "O", "P", "Q", "R", "S", "T", "U", "V", "W", "X", "Y", "Z">>

\* str.lower() on one character
LowerChar(c) ==
    IF \E i \in 1..26 : UpperLetters[i] = c
    THEN LowerLetters[CHOOSE i \in 1..26 : UpperLetters[i] = c]
    ELSE c

\* str.upper() on one character
UpperChar(c) ==
    IF \E i \in 1..26 : LowerLetters[i] = c
    THEN UpperLetters[CHOOSE i \in 1..26 : LowerLetters[i] = c]
    ELSE c

\* str.lower()
Lower(s) == [i \in 1..Len(s) |-> LowerChar(s[i])]

\* str.upper()
Upper(s) == [i \in 1..Len(s) |-> UpperChar(s[i])]

\* the characters str.strip() removes
IsSpace(c) == c \in {" ", "\t", "\n"}

RECURSIVE LStrip(_)
LStrip(s) == IF s = <<>> \/ ~IsSpace(Head(s)) THEN s ELSE LStrip(Tail(s))

RECURSIVE RStrip(_)
RStrip(s) ==
    IF s = <<>> \/ ~IsSpace(s[Len(s)]) THEN s ELSE RStrip(SubSeq(s, 1, Len(s) - 1))

\* str.strip()
Strip(s) == RStrip(LStrip(s))

\* `needle in hay` on two strings
Contains(hay, needle) ==
    \E i \in 1..(Len(hay) - Len(needle) + 1) :
        SubSeq(hay, i, i + Len(needle) - 1) = needle

\* `not text or not text.strip()`, the input validation of every stage
IsBlank(text) == text = <<>> \/ Strip(text) = <<>>

(***************************************************************************)
(* JSON values of a remote reply                                           *)
(***************************************************************************)
\* t: "absent" (key missing), "num", "str", "null", "list" (unhashable).
\* A string is held whole in s, or character by character in cs.
JAbsent == [t |-> "absent", n |-> 0, s |-> "", cs |-> <<>>]

JNum(n) == [t |-> "num", n |-> n, s |-> "", cs |-> <<>>]

JStr(s) == [t |-> "str", n |-> 0, s |-> s, cs |-> <<>>]

JText(cs) == [t |-> "str", n |-> 0, s |-> "", cs |-> cs]

JNull == [t |-> "null", n |-> 0, s |-> "", cs |-> <<>>]

JList == [t |-> "list", n |-> 0, s |-> "", cs |-> <<>>]

\* the keyword list of the fact-check fallback
controversial_keywords ==
    <<
      <<"v","a","c","c","i","n","e">>,
      <<"c","o","v","i","d">>,
      <<"c","o","r","o","n","a","v","i","r","u","s">>,
      <<"p","a","n","d","e","m","i","c">>,
      <<"g","o","v","e","r","n","m","e","n","t">>,
      <<"c","o","n","s","p","i","r","a","c","y">>,
      <<"f","a","k","e">>,
      <<"h","o","a","x">>,
      <<"s","e","c","r","e","t">>,
      <<"h","i","d","d","e","n">>,
      <<"t","r","u","t","h">>,
      <<"l","i","e">>,
      <<"f","r","a","u","d">>,
      <<"s","c","a","m">>,
      <<"e","l","e","c","t","i","o","n">>,
      <<"v","o","t","i","n","g">>,
      <<"r","i","g","g","e","d">>,
      <<"s","t","o","l","e","n">>,
      <<"c","l","i","m","a","t","e"," ","c","h","a","n","g","e">>,
      <<"g","l","o","b","a","l"," ","w","a","r","m","i","n","g">>,
      <<"c","u","r","e">>,
      <<"m","e","d","i","c","i","n","e">>,
      <<"d","r","u","g">>,
      <<"t","r","e","a","t","m","e","n","t">>,
      <<"s","c","i","e","n","t","i","s","t">>,
      <<"r","e","s","e","a","r","c","h">>,
      <<"s","t","u","d","y">>,
      <<"f","l","a","t"," ","e","a","r","t","h">>,
      <<"n","a","s","a">>,
      <<"s","p","a","c","e">>,
      <<"m","o","o","n"," ","l","a","n","d","i","n","g">>,
      <<"5","g">>,
      <<"m","i","c","r","o","c","h","i","p">>,
      <<"t","r","a","c","k","i","n","g">>
    >>

(***************************************************************************)
(* Remote replies                                                          *)
(***************************************************************************)
\* the "error" member of a JSON object: absent, a message, or no string
NoError == [t |-> "absent", msg |-> <<>>]

ErrorMsg(m) == [t |-> "str", msg |-> m]

ErrorNull == [t |-> "null", msg |-> <<>>]

\* the "labels" / "scores" member of a JSON object: absent, a list, a
\* number, or a non-empty object
LAbsent == [t |-> "absent", items |-> <<>>]

LList(xs) == [t |-> "list", items |-> xs]

LNum == [t |-> "num", items |-> <<>>]

LDict == [t |-> "dict", items |-> <<>>]

\* one candidate of a classification reply: a {label, score} object, or
\* something that is no object
Cand(l, sc) == [rec |-> TRUE, label |-> l, score |-> sc]

NotARecord == [rec |-> FALSE, label |-> JAbsent, score |-> JAbsent]

\* one element of the outer list of a classification reply
Inner(preds) == [t |-> "list", preds |-> preds]

NotAList == [t |-> "other", preds |-> <<>>]

\* decoded reply bodies: a JSON object, a JSON list, anything else
DictBody(err, labels, scores) ==
    [top |-> "dict", err |-> err, labels |-> labels, scores |-> scores, items |-> <<>>]

ListBody(items) ==
    [top |-> "list", err |-> NoError, labels |-> LAbsent, scores |-> LAbsent,
     items |-> items]

OtherBody ==
    [top |-> "other", err |-> NoError, labels |-> LAbsent, scores |-> LAbsent,
     items |-> <<>>]

\* what requests.post does: times out, fails to connect, or answers with a
\* status and a body that decodes as JSON or does not
Timeout == [cond |-> "timeout", status |-> 0, json |-> FALSE, body |-> OtherBody]

ConnectionError ==
    [cond |-> "connection", status |-> 0, json |-> FALSE, body |-> OtherBody]

Response(status, body) ==
    [cond |-> "response", status |-> status, json |-> TRUE, body |-> body]

NotJson(status) ==
    [cond |-> "response", status |-> status, json |-> FALSE, body |-> OtherBody]

\* os.getenv("HUGGINGFACE_API_TOKEN"): None when unset, else its value
None == "<None>"

\* `not api_token`
NotToken(api_token) == api_token = None \/ api_token = ""

(***************************************************************************)
(* Stage invokers.  An outcome either raises (msg is the exception         *)
(* message, up to its formatted tail) or returns the decoded body;         *)
(* called tells whether requests.post was reached.                         *)
(***************************************************************************)
Raise(msg, called) ==
    [raised |-> TRUE, msg |-> msg, called |-> called, result |-> OtherBody]

Return(body) == [raised |-> FALSE, msg |-> "", called |-> TRUE, result |-> body]

loading == <<"l","o","a","d","i","n","g">>

\* HTTP 200 taken for success whatever the body holds
HandleOk_lenient(remote, loadingMsg, errorMsg) ==
    IF ~remote.json THEN Raise("JSONDecodeError", TRUE) ELSE Return(remote.body)

\* the `if isinstance(result, dict) and "error" in result` block and the
\* `return result` after it, shared in shape by the three invokers
HandleOk(remote, loadingMsg, errorMsg) ==
    IF ~remote.json
    THEN Raise("JSONDecodeError", TRUE)
    ELSE LET result == remote.body IN
         IF result.top = "dict" /\ result.err.t # "absent"
         THEN IF result.err.t # "str"
              THEN Raise("AttributeError", TRUE)
              ELSE IF Contains(Lower(result.err.msg), loading)
                   THEN Raise(loadingMsg, TRUE)
                   ELSE Raise(errorMsg, TRUE)
         ELSE Return(result)

\* the credential looked at only after the request was sent
query_huggingface_api_late(api_token, remote) ==
    IF NotToken(api_token)
    THEN Raise("HUGGINGFACE_API_TOKEN not found in environment variables", TRUE)
    ELSE Raise("Hugging Face API error: ", TRUE)

query_huggingface_api(api_token, remote) ==
    IF NotToken(api_token)
    THEN Raise("HUGGINGFACE_API_TOKEN not found in environment variables", FALSE)
    ELSE CASE remote.cond = "timeout" ->
                Raise("API request timed out. Please try again.", TRUE)
           [] remote.cond = "connection" ->
                Raise("Unable to connect to Hugging Face API. Check your internet connection.", TRUE)
           [] OTHER ->
                IF remote.status = 200
                THEN HandleOk(remote,
                              "Model is loading, please try again in a few seconds",
                              "API error: ")
                ELSE IF remote.status = 429
                THEN Raise("Rate limit exceeded. Please try again later or upgrade your plan.", TRUE)
                ELSE IF remote.status = 401
                THEN Raise("Invalid API token. Please check your HUGGINGFACE_API_TOKEN.", TRUE)
                ELSE Raise("Hugging Face API error: ", TRUE)

query_fact_check_api(api_token, remote) ==
    IF NotToken(api_token)
    THEN Raise("HUGGINGFACE_API_TOKEN not found in environment variables", FALSE)
    ELSE CASE remote.cond = "timeout" ->
                Raise("Fact check API request timed out. Model may be overloaded.", TRUE)
           [] remote.cond = "connection" ->
                Raise("Unable to connect to fact check API. Check your internet connection.", TRUE)
           [] OTHER ->
                IF remote.status = 200
                THEN HandleOk(remote,
                              "Fact check model is loading, please try again in a few seconds",
                              "Fact check API error: ")
                ELSE IF remote.status = 429
                THEN Raise("Rate limit exceeded for fact check API. Please try again later.", TRUE)
                ELSE IF remote.status = 401
                THEN Raise("Invalid API token for fact check analysis.", TRUE)
                ELSE IF remote.status = 503
                THEN Raise("Fact check model is currently overloaded. Please try again later.", TRUE)
                ELSE Raise("Fact check API error: ", TRUE)

query_fake_news_api(api_token, remote) ==
    IF NotToken(api_token)
    THEN Raise("HUGGINGFACE_API_TOKEN not found in environment variables", FALSE)
    ELSE CASE remote.cond = "timeout" ->
                Raise("Fake news detection API request timed out. Please try again.", TRUE)
           [] remote.cond = "connection" ->
                Raise("Unable to connect to fake news detection API. Check your internet connection.", TRUE)
           [] OTHER ->
                IF remote.status = 200
                THEN HandleOk(remote,
                              "Fake news detection model is loading, please try again in a few seconds",
                              "Fake news API error: ")
                ELSE IF remote.status = 429
                THEN Raise("Rate limit exceeded for fake news detection API. Please try again later.", TRUE)
                ELSE IF remote.status = 401
                THEN Raise("Invalid API token for fake news detection.", TRUE)
                ELSE Raise("Fake news API error: ", TRUE)

(***************************************************************************)
(* Stage results and the Python built-ins the normalizers use              *)
(***************************************************************************)
\* a stage's returned dict; hasNote tells whether the "note" key is there
Result(label, confidence) ==
    [label |-> label, confidence |-> confidence, hasNote |-> FALSE, note |-> ""]

NotedResult(label, confidence, note) ==
    [label |-> label, confidence |-> confidence, hasNote |-> TRUE, note |-> note]

\* What a stage call did: returned res or let an exception escape; path is
\* the return statement taken ("empty" the input validation, "live" the
\* normalized prediction, "default" an unexpected-format branch, "fallback"
\* the except handler); called tells whether requests.post was reached.
Returned(res, path, called) ==
    [raised |-> FALSE, res |-> res, path |-> path, called |-> called]

Escaped(called) ==
    [raised |-> TRUE, res |-> Result("", JNum(0)), path |-> "raise", called |-> called]

\* the score strings of the replies, in Python's str order
StrOrder == <<"0.81", "abc">>

StrRank(s) == CHOOSE i \in 1..Len(StrOrder) : StrOrder[i] = s

\* the strings float() parses, with their values: float("0.81") is 0.81
NumericStrings == {"0.81"}

ParseFloat(s) == CASE s = "0.81" -> 81

\* float(v) raises: ValueError on a string that is no number, TypeError on
\* None or a list
FloatFails(v) == ~(v.t = "num" \/ (v.t = "str" /\ v.s \in NumericStrings))

float(v) == IF v.t = "num" THEN v ELSE JNum(ParseFloat(v.s))

\* x.get('score', 0), the key of max()
ScoreKey(x) == IF x.score.t = "absent" THEN JNum(0) ELSE x.score

\* the comparison turned round
Greater_less(a, b) == IF a.t = "num" THEN a.n < b.n ELSE StrRank(a.s) < StrRank(b.s)

\* a > b on two keys that Python can order
Greater(a, b) == IF a.t = "num" THEN a.n > b.n ELSE StrRank(a.s) > StrRank(b.s)

\* max(predictions, key=...) raises: an element without .get, or two keys
\* Python cannot order (different types, or None)
MaxRaises(predictions) ==
    \/ \E i \in 1..Len(predictions) : ~predictions[i].rec
    \/ /\ Len(predictions) >= 2
       /\ \E i \in 1..Len(predictions) :
            \/ ScoreKey(predictions[i]).t # ScoreKey(predictions[1]).t
            \/ ScoreKey(predictions[i]).t \notin {"num", "str"}

\* max(predictions, key=...): the first element with the greatest key
RECURSIVE MaxFrom(_, _, _)
MaxFrom(predictions, i, best) ==
    IF i > Len(predictions) THEN best
    ELSE IF Greater(ScoreKey(predictions[i]), ScoreKey(best))
         THEN MaxFrom(predictions, i + 1, predictions[i])
         ELSE MaxFrom(predictions, i + 1, best)

Max(predictions) == MaxFrom(predictions, 2, predictions[1])

(***************************************************************************)
(* Sentiment stage                                                         *)
(***************************************************************************)
\* label_mapping.get(raw_label, 'Neutral')
label_mapping(raw_label) ==
    IF raw_label.t # "str" THEN "Neutral"
    ELSE CASE raw_label.s = "LABEL_0" -> "Negative"
           [] raw_label.s = "LABEL_1" -> "Neutral"
           [] raw_label.s = "LABEL_2" -> "Positive"
           [] OTHER -> "Neutral"

\* the try block of analyze_sentiment after input validation
SentimentParse(result) ==
    IF result.top = "list" /\ Len(result.items) > 0
    THEN LET predictions == result.items[1] IN
         IF predictions.t = "list" /\ Len(predictions.preds) > 0
         THEN IF MaxRaises(predictions.preds)
              THEN Escaped(TRUE)
              ELSE LET top_prediction == Max(predictions.preds)
                       raw_label == IF top_prediction.label.t = "absent"
                                    THEN JStr("LABEL_1")
                                    ELSE top_prediction.label
                       confidence == IF top_prediction.score.t = "absent"
                                     THEN JNum(0)
                                     ELSE top_prediction.score
                   IN IF raw_label.t = "list"
                      THEN Escaped(TRUE)
                      ELSE Returned(Result(label_mapping(raw_label), confidence),
                                    "live", TRUE)
         ELSE Returned(Result("Neutral", JNum(0)), "default", TRUE)
    ELSE Returned(Result("Neutral", JNum(0)), "default", TRUE)

SentimentTry(text, api_token, remote) ==
    IF IsBlank(text)
    THEN Returned(Result("Neutral", JNum(0)), "empty", FALSE)
    ELSE LET q == query_huggingface_api(api_token, remote) IN
         IF q.raised THEN Escaped(q.called) ELSE SentimentParse(q.result)

\* the except handler of analyze_sentiment
SentimentExcept(called) == Returned(Result("Neutral", JNum(0)), "fallback", called)

analyze_sentiment(text, api_token, remote) ==
    LET try == SentimentTry(text, api_token, remote) IN
    IF try.raised THEN SentimentExcept(try.called) ELSE try

(***************************************************************************)
(* Fact-check trigger stage                                                *)
(***************************************************************************)
NeedsFactCheck == "Needs fact check"

NoFactCheckNeeded == "No fact check needed"

\* len(x) raises TypeError on a number
LenRaises(x) == x.t = "num"

\* len(x) > 0; a JSON object standing here has members
NonEmpty(x) == x.t = "dict" \/ (x.t = "list" /\ Len(x.items) > 0)

\* x[0] raises KeyError on a JSON object, whose keys are strings
IndexRaises(x) == x.t = "dict"

\* the last entry of each list taken for the top prediction
FactCheckParse_last(result) ==
    IF /\ result.top = "dict"
       /\ result.labels.t = "list" /\ Len(result.labels.items) > 0
       /\ result.scores.t = "list" /\ Len(result.scores.items) > 0
    THEN LET top_label == result.labels.items[Len(result.labels.items)]
             top_confidence == result.scores.items[Len(result.scores.items)]
         IN IF FloatFails(top_confidence)
            THEN Escaped(TRUE)
            ELSE Returned(Result(top_label, float(top_confidence)), "live", TRUE)
    ELSE Returned(Result(NoFactCheckNeeded, JNum(0)), "default", TRUE)

FactCheckParse(result) ==
    IF result.top = "dict" /\ result.labels.t # "absent" /\ result.scores.t # "absent"
    THEN LET labels == result.labels
             scores == result.scores
         IN IF LenRaises(labels) \/ (NonEmpty(labels) /\ LenRaises(scores))
            THEN Escaped(TRUE)
            ELSE IF NonEmpty(labels) /\ NonEmpty(scores)
                 THEN IF IndexRaises(labels) \/ IndexRaises(scores)
                      THEN Escaped(TRUE)
                      ELSE LET top_label == labels.items[1]
                               top_confidence == scores.items[1]
                           IN IF FloatFails(top_confidence)
                              THEN Escaped(TRUE)
                              ELSE Returned(Result(top_label, float(top_confidence)),
                                            "live", TRUE)
                 ELSE Returned(Result(NoFactCheckNeeded, JNum(0)), "default", TRUE)
    ELSE Returned(Result(NoFactCheckNeeded, JNum(0)), "default", TRUE)

FactCheckTry(text, api_token, remote) ==
    IF IsBlank(text)
    THEN Returned(Result(NoFactCheckNeeded, JNum(0)), "empty", FALSE)
    ELSE LET q == query_fact_check_api(api_token, remote) IN
         IF q.raised THEN Escaped(q.called) ELSE FactCheckParse(q.result)

\* the keywords matched against the text as typed
KeywordHit_cased(text) ==
    \E k \in 1..Len(controversial_keywords) :
        Contains(text, controversial_keywords[k])

\* `keyword in text_lower` for some keyword of the list
KeywordHit(text) ==
    LET text_lower == Lower(text) IN
    \E k \in 1..Len(controversial_keywords) :
        Contains(text_lower, controversial_keywords[k])

\* the keyword fallback without its note
FactCheckExcept_nonote(text, called) ==
    IF KeywordHit(text)
    THEN Returned(Result(NeedsFactCheck, JNum(70)), "fallback", called)
    ELSE Returned(Result(NoFactCheckNeeded, JNum(60)), "fallback", called)

\* the except handler of analyze_fact_check_trigger
FactCheckExcept(text, called) ==
    IF KeywordHit(text)
    THEN Returned(NotedResult(NeedsFactCheck, JNum(70),
                    "Triggered by keyword-based fallback due to API unavailability"),
                  "fallback", called)
    ELSE Returned(NotedResult(NoFactCheckNeeded, JNum(60),
                    "Fallback analysis - API unavailable"),
                  "fallback", called)

\* the stage without its except handler
analyze_fact_check_trigger_unguarded(text, api_token, remote) ==
    FactCheckTry(text, api_token, remote)

analyze_fact_check_trigger(text, api_token, remote) ==
    LET try == FactCheckTry(text, api_token, remote) IN
    IF try.raised THEN FactCheckExcept(text, try.called) ELSE try

(***************************************************************************)
(* Fake-news stage                                                         *)
(***************************************************************************)
FAKE == <<"F","A","K","E">>

REAL == <<"R","E","A","L">>

\* the substring looked for in upper case, in a lower-cased label
fake_upper == <<"F","A","K","E">>

fake == <<"f","a","k","e">>

false == <<"f","a","l","s","e">>

FakeNewsParse(result) ==
    IF result.top = "list" /\ Len(result.items) > 0
    THEN LET predictions == result.items[1] IN
         IF predictions.t = "list" /\ Len(predictions.preds) > 0
         THEN IF MaxRaises(predictions.preds)
              THEN Escaped(TRUE)
              ELSE LET top_prediction == Max(predictions.preds)
                       raw_label == IF top_prediction.label.t = "absent"
                                    THEN JText(REAL)
                                    ELSE top_prediction.label
                       confidence == IF top_prediction.score.t = "absent"
                                     THEN JNum(0)
                                     ELSE top_prediction.score
                   IN IF raw_label.t # "str"
                      THEN Escaped(TRUE)
                      ELSE LET upper == Upper(raw_label.cs)
                               normalized_label ==
                                   IF upper \notin {FAKE, REAL}
                                   THEN IF \/ Contains(Lower(raw_label.cs), fake)
                                           \/ Contains(Lower(raw_label.cs), false)
                                        THEN FAKE
                                        ELSE REAL
                                   ELSE upper
                           IN IF FloatFails(confidence)
                              THEN Escaped(TRUE)
                              ELSE Returned(
                                     Result(IF normalized_label = FAKE
                                            THEN "FAKE" ELSE "REAL",
                                            float(confidence)),
                                     "live", TRUE)
         ELSE Returned(Result("REAL", JNum(0)), "default", TRUE)
    ELSE Returned(Result("REAL", JNum(0)), "default", TRUE)

\* the input validation after the query
FakeNewsTry_querying(text, api_token, remote) ==
    LET q == query_fake_news_api(api_token, remote) IN
    IF q.raised THEN Escaped(q.called)
    ELSE IF IsBlank(text)
         THEN Returned(Result("REAL", JNum(0)), "empty", q.called)
         ELSE FakeNewsParse(q.result)

FakeNewsTry(text, api_token, remote) ==
    IF IsBlank(text)
    THEN Returned(Result("REAL", JNum(0)), "empty", FALSE)
    ELSE LET q == query_fake_news_api(api_token, remote) IN
         IF q.raised THEN Escaped(q.called) ELSE FakeNewsParse(q.result)

\* the fallback answering FAKE
FakeNewsExcept_fake(called) == Returned(Result("FAKE", JNum(0)), "fallback", called)

\* the except handler of detect_fake_news
FakeNewsExcept(called) == Returned(Result("REAL", JNum(0)), "fallback", called)

detect_fake_news(text, api_token, remote) ==
    LET try == FakeNewsTry(text, api_token, remote) IN
    IF try.raised THEN FakeNewsExcept(try.called) ELSE try

(***************************************************************************)
(* preprocess, the text sent to the sentiment endpoint                     *)
(***************************************************************************)
\* text.split(" "): the pieces between single spaces, empty ones included
RECURSIVE Split(_)
Split(s) ==
    IF \A i \in 1..Len(s) : s[i] # " "
    THEN <<s>>
    ELSE LET i == CHOOSE k \in 1..Len(s) :
                      s[k] = " " /\ \A m \in 1..(k - 1) : s[m] # " "
         IN <<SubSeq(s, 1, i - 1)>> \o Split(SubSeq(s, i + 1, Len(s)))

\* " ".join(new_text)
RECURSIVE Join(_)
Join(ts) ==
    IF Len(ts) = 0 THEN <<>>
    ELSE IF Len(ts) = 1 THEN ts[1]
    ELSE ts[1] \o <<" ">> \o Join(Tail(ts))

\* t.startswith(prefix)
StartsWith(t, prefix) ==
    Len(t) >= Len(prefix) /\ SubSeq(t, 1, Len(prefix)) = prefix

user == <<"@", "u", "s", "e", "r">>

http_prefix == <<"h", "t", "t", "p">>

\* the placeholder put in front of the mention instead of replacing it
PreprocessToken_prepend(t) ==
    LET t1 == IF StartsWith(t, <<"@">>) /\ Len(t) > 1 THEN user \o t ELSE t
    IN IF StartsWith(t1, http_prefix) THEN http_prefix ELSE t1

\* the body of the loop of preprocess
PreprocessToken(t) ==
    LET t1 == IF StartsWith(t, <<"@">>) /\ Len(t) > 1 THEN user ELSE t
    IN IF StartsWith(t1, http_prefix) THEN http_prefix ELSE t1

preprocess(text) ==
    LET ts == Split(text) IN Join([i \in 1..Len(ts) |-> PreprocessToken(ts[i])])

\* what a stage's except handler prints: the exception's message
Logged(q, out) ==
    IF out.path # "fallback" THEN ""
    ELSE IF q.raised THEN q.msg
    ELSE "<exception of the parse>"

(***************************************************************************)
(* Inputs: tweet texts, credentials and remote replies                     *)
(***************************************************************************)
\* non-empty sequences over S of length at most n
SeqsUpTo(S, n) == UNION {[1..k -> S] : k \in 1..n}

Tokens == {None, "", "hf_token"}

\* every text of at most MaxTextLen characters over these
TextChars == {"5", "g", "G", " "}

Texts == {<<>>} \cup SeqsUpTo(TextChars, MaxTextLen)

\* texts for the stages and runs that only test the text for blankness
SampleTexts == {<<>>, <<" ", "\n">>, <<"h","i">>, <<"5","G">>}

Scores == {JAbsent, JNum(-10), JNum(5), JNum(150), JStr("abc"), JStr("0.81"), JNull}

SentimentCands ==
    {Cand(l, JNum(91)) : l \in {JStr("LABEL_0"), JStr("LABEL_1"), JStr("LABEL_2"),
                                 JStr("LABEL_9"), JAbsent, JNum(1), JList}}
      \cup {Cand(JStr("LABEL_0"), sc) : sc \in Scores}
      \cup {NotARecord}

FakeNewsCands ==
    {Cand(l, JNum(77)) : l \in {JText(FAKE), JText(fake), JText(<<"F","a","k","e","d">>),
                                 JText(<<"F","a","l","s","e">>), JText(REAL),
                                 JText(<<"r","e","a","l">>), JText(<<"t","r","u","e">>), JAbsent, JNum(1)}}
      \cup {Cand(JText(REAL), sc) : sc \in Scores}
      \cup {NotARecord}

\* the replies that are no HTTP 200 with a clean JSON body
Failures ==
    {Timeout, ConnectionError, NotJson(200)}
      \cup {Response(st, OtherBody) : st \in {401, 429, 503, 500}}
      \cup {Response(200, DictBody(e, LAbsent, LAbsent)) :
              e \in {ErrorMsg(<<"L","o","a","d","i","n","g">>), ErrorMsg(<<"b","a","d">>), ErrorNull}}

\* HTTP 200 replies of a classification endpoint whose inner list holds at
\* most n candidates of C
ListReplies(C, n) ==
    {Response(200, b) :
       b \in {OtherBody, DictBody(NoError, LAbsent, LAbsent), ListBody(<<>>),
              ListBody(<<NotAList>>), ListBody(<<Inner(<<>>)>>)}
             \cup {ListBody(<<Inner(p)>>) : p \in SeqsUpTo(C, n)}}

TriggerLabels ==
    {LAbsent, LNum, LDict, LList(<<>>), LList(<<NeedsFactCheck>>),
     LList(<<NoFactCheckNeeded>>), LList(<<"needs fact check">>),
     LList(<<"Maybe">>), LList(<<NoFactCheckNeeded, NeedsFactCheck>>)}

TriggerScores ==
    {LAbsent, LNum, LDict, LList(<<>>), LList(<<JNum(81), JNum(19)>>),
     LList(<<JNum(19), JNum(81)>>)}
      \cup {LList(<<sc>>) : sc \in Scores \ {JAbsent}}

\* HTTP 200 replies of the zero-shot endpoint
TriggerReplies ==
    {Response(200, b) :
       b \in {OtherBody, ListBody(<<>>)}
             \cup {DictBody(NoError, l, sc) : l \in TriggerLabels, sc \in TriggerScores}}

SentimentRemotes == Failures \cup ListReplies(SentimentCands, MaxPreds)

\* HTTP 200 replies of the zero-shot endpoint that carry an "error" member
\* next to a complete prediction
TriggerErrorReplies ==
    {Response(200, DictBody(e, LList(<<NeedsFactCheck>>), LList(<<JNum(81)>>))) :
       e \in {ErrorMsg(<<"L","o","a","d","i","n","g">>), ErrorMsg(<<"b","a","d">>)}}

FactCheckRemotes == Failures \cup TriggerReplies \cup TriggerErrorReplies

FakeNewsRemotes == Failures \cup ListReplies(FakeNewsCands, MaxPreds)

(***************************************************************************)
(* State                                                                   *)
(***************************************************************************)
VARIABLES
    pc,                  \* where the run stands
    text,                \* tweet['text'], the input of the stages
    api_token,           \* HUGGINGFACE_API_TOKEN in the environment
    sentiment,           \* tweet['sentiment']
    fact_check_trigger,  \* tweet['fact_check_trigger']
    fake_news_detection, \* tweet['fake_news_detection']
    path,                \* per stage, the return statement its call took
    calls,               \* per stage, the requests.post calls made
    reply,               \* what the remote did in the last direct stage call
    http,                \* status analyze_tweet answered with, 0 before
    processed_text,      \* the text preprocess returned last
    logged               \* what the last direct stage call printed

vars == <<pc, text, api_token, sentiment, fact_check_trigger, fake_news_detection,
          path, calls, reply, http, processed_text, logged>>

Stages == {"sentiment", "fact_check", "fake_news"}

\* a key of tweet not assigned yet
Unset == [label |-> "<unset>", confidence |-> JNum(0), hasNote |-> FALSE, note |-> ""]

NoReply == [cond |-> "none", status |-> 0, json |-> FALSE, body |-> OtherBody]

\* the skipped stage leaves no note
SkippedResult_nonote == Result("REAL", JNum(0))

\* the branch of analyze_tweet that does not run the fake-news stage
SkippedResult == NotedResult("REAL", JNum(0), "Skipped - No claims detected")

Init ==
    /\ pc = "extract"
    /\ text = <<>>
    /\ api_token \in Tokens
    /\ sentiment = Unset
    /\ fact_check_trigger = Unset
    /\ fake_news_detection = Unset
    /\ path = [st \in Stages |-> "none"]
    /\ calls = [st \in Stages |-> 0]
    /\ reply = NoReply
    /\ http = 0
    /\ processed_text = <<>>
    /\ logged = ""

\* a failed request is sent a second time
Account_retry(st, out) ==
    /\ path' = [path EXCEPT ![st] = out.path]
    /\ calls' = [calls EXCEPT ![st] =
                   @ + (IF out.called
                        THEN (IF out.path = "fallback" THEN 2 ELSE 1)
                        ELSE 0)]

\* bookkeeping of one stage call
Account(st, out) ==
    /\ path' = [path EXCEPT ![st] = out.path]
    /\ calls' = [calls EXCEPT ![st] = @ + (IF out.called THEN 1 ELSE 0)]

(***************************************************************************)
(* analyze_tweet, one action per awaited or remote step                    *)
(***************************************************************************)
\* extract_tweet_data returns the tweet record
Extract ==
    /\ pc = "extract"
    /\ \E t \in SampleTexts : text' = t
    /\ pc' = "Sentiment"
    /\ UNCHANGED <<api_token, sentiment, fact_check_trigger, fake_news_detection,
                   path, calls, reply, http, processed_text, logged>>

\* extract_tweet_data raises: ValueError is answered 400, anything else 500
ExtractFails ==
    /\ pc = "extract"
    /\ \E code \in {400, 500} : http' = code
    /\ pc' = "Done"
    /\ UNCHANGED <<text, api_token, sentiment, fact_check_trigger,
                   fake_news_detection, path, calls, reply, processed_text, logged>>

\* a near-match of the label also counts
ClaimsDetected_fuzzy(fact_check_result) ==
    fact_check_result.label \in {NeedsFactCheck, "needs fact check"}

\* fact_check_result.get('label') == 'Needs fact check'
ClaimsDetected(fact_check_result) == fact_check_result.label = NeedsFactCheck

\* Stage 1: sentiment = analyze_sentiment(tweet['text'])
StageSentiment ==
    /\ pc = "Sentiment"
    /\ \E remote \in SentimentRemotes :
         LET out == analyze_sentiment(text, api_token, remote) IN
         /\ Account("sentiment", out)
         /\ IF out.raised
            THEN /\ http' = 500
                 /\ pc' = "Done"
                 /\ UNCHANGED sentiment
            ELSE /\ sentiment' = out.res
                 /\ pc' = "FactCheckTrigger"
                 /\ UNCHANGED http
    /\ processed_text' = IF IsBlank(text) THEN processed_text ELSE preprocess(text)
    /\ UNCHANGED <<text, api_token, fact_check_trigger, fake_news_detection, reply,
                   logged>>

\* Stage 2: fact_check_result = analyze_fact_check_trigger(tweet['text']),
\* then the test of its label that picks the branch of stage 3
StageFactCheckTrigger ==
    /\ pc = "FactCheckTrigger"
    /\ \E remote \in FactCheckRemotes :
         LET out == analyze_fact_check_trigger(text, api_token, remote) IN
         /\ Account("fact_check", out)
         /\ IF out.raised
            THEN /\ http' = 500
                 /\ pc' = "Done"
                 /\ UNCHANGED fact_check_trigger
            ELSE /\ fact_check_trigger' = out.res
                 /\ pc' = IF ClaimsDetected(out.res)
                          THEN "FakeNews"
                          ELSE "SkipFakeNews"
                 /\ UNCHANGED http
    /\ UNCHANGED <<text, api_token, sentiment, fake_news_detection, reply,
                   processed_text, logged>>

\* Stage 3, claims detected: detect_fake_news(tweet['text']); return tweet
StageFakeNews ==
    /\ pc = "FakeNews"
    /\ \E remote \in FakeNewsRemotes :
         LET out == detect_fake_news(text, api_token, remote) IN
         /\ Account("fake_news", out)
         /\ IF out.raised
            THEN /\ http' = 500
                 /\ UNCHANGED fake_news_detection
            ELSE /\ fake_news_detection' = out.res
                 /\ http' = 200
    /\ pc' = "Done"
    /\ UNCHANGED <<text, api_token, sentiment, fact_check_trigger, reply,
                   processed_text, logged>>

\* Stage 3, no claims detected: REAL by default; return tweet
SkipFakeNews ==
    /\ pc = "SkipFakeNews"
    /\ fake_news_detection' = SkippedResult
    /\ path' = [path EXCEPT !["fake_news"] = "skip"]
    /\ http' = 200
    /\ pc' = "Done"
    /\ UNCHANGED <<text, api_token, sentiment, fact_check_trigger, calls, reply,
                   processed_text, logged>>

Next ==
    \/ Extract
    \/ ExtractFails
    \/ StageSentiment
    \/ StageFactCheckTrigger
    \/ StageFakeNews
    \/ SkipFakeNews

\* one request to POST /analyze-tweet
Spec == Init /\ [][Next]_vars

(***************************************************************************)
(* The three stage functions called on their own, on any text              *)
(***************************************************************************)
InitStages ==
    /\ pc = "call"
    /\ text = <<>>
    /\ api_token \in Tokens
    /\ sentiment = Unset
    /\ fact_check_trigger = Unset
    /\ fake_news_detection = Unset
    /\ path = [st \in Stages |-> "none"]
    /\ calls = [st \in Stages |-> 0]
    /\ reply = NoReply
    /\ http = 0
    /\ processed_text = <<>>
    /\ logged = ""

CallSentiment ==
    /\ pc = "call"
    /\ \E t \in SampleTexts, remote \in SentimentRemotes :
         LET out == analyze_sentiment(t, api_token, remote) IN
         /\ text' = t
         /\ reply' = remote
         /\ Account("sentiment", out)
         /\ sentiment' = IF out.raised THEN sentiment ELSE out.res
         /\ pc' = IF out.raised THEN "sentiment raised" ELSE "sentiment returned"
         /\ processed_text' = IF IsBlank(t) THEN processed_text ELSE preprocess(t)
         /\ logged' = Logged(query_huggingface_api(api_token, remote), out)
    /\ UNCHANGED <<api_token, fact_check_trigger, fake_news_detection, http>>

CallFactCheckTrigger ==
    /\ pc = "call"
    /\ \E t \in Texts, remote \in FactCheckRemotes :
         LET out == analyze_fact_check_trigger(t, api_token, remote) IN
         /\ text' = t
         /\ reply' = remote
         /\ Account("fact_check", out)
         /\ fact_check_trigger' = IF out.raised THEN fact_check_trigger ELSE out.res
         /\ pc' = IF out.raised THEN "fact_check raised" ELSE "fact_check returned"
         /\ logged' = Logged(query_fact_check_api(api_token, remote), out)
    /\ UNCHANGED <<api_token, sentiment, fake_news_detection, http, processed_text>>

CallFakeNews ==
    /\ pc = "call"
    /\ \E t \in SampleTexts, remote \in FakeNewsRemotes :
         LET out == detect_fake_news(t, api_token, remote) IN
         /\ text' = t
         /\ reply' = remote
         /\ Account("fake_news", out)
         /\ fake_news_detection' = IF out.raised THEN fake_news_detection ELSE out.res
         /\ pc' = IF out.raised THEN "fake_news raised" ELSE "fake_news returned"
         /\ logged' = Logged(query_fake_news_api(api_token, remote), out)
    /\ UNCHANGED <<api_token, sentiment, fact_check_trigger, http, processed_text>>

NextStages ==
    \/ CallSentiment
    \/ CallFactCheckTrigger
    \/ CallFakeNews

SpecStages == InitStages /\ [][NextStages]_vars

(***************************************************************************)
(* preprocess called on its own, and again on what it returned             *)
(***************************************************************************)
\* Longest text preprocess is run on, enumerated over PreprocessChars.
MaxPreprocessLen == 5

PreprocessChars == {"@", "h", "t", "p", " "}

PreprocessTexts == {<<>>} \cup SeqsUpTo(PreprocessChars, MaxPreprocessLen)

InitPreprocess ==
    /\ pc = "preprocess"
    /\ text \in PreprocessTexts
    /\ api_token = None
    /\ sentiment = Unset
    /\ fact_check_trigger = Unset
    /\ fake_news_detection = Unset
    /\ path = [st \in Stages |-> "none"]
    /\ calls = [st \in Stages |-> 0]
    /\ reply = NoReply
    /\ http = 0
    /\ processed_text = text
    /\ logged = ""

\* processed_text = preprocess(processed_text), on the text and then once
\* more on the result
Preprocess ==
    /\ pc \in {"preprocess", "preprocessed"}
    /\ processed_text' = preprocess(processed_text)
    /\ pc' = IF pc = "preprocess" THEN "preprocessed" ELSE "preprocessed twice"
    /\ UNCHANGED <<text, api_token, sentiment, fact_check_trigger,
                   fake_news_detection, path, calls, reply, http, logged>>

SpecPreprocess == InitPreprocess /\ [][Preprocess]_vars

\* a request to the endpoint, or a direct call of one stage
SpecAll == (Init \/ InitStages) /\ [][Next \/ NextStages]_vars

(***************************************************************************)
(* Properties                                                              *)
(***************************************************************************)
\* the stage's call has returned (in a request or called directly)
Ran(st) == path[st] \notin {"none", "skip", "raise"}

\* C1: in a request whose extraction succeeded, detect_fake_news is invoked
\* if and only if the trigger stage returned exactly the label "Needs fact
\* check"; with any other label the skip branch is taken and the fake-news
\* endpoint is never called.
C1_FakeNewsIffExactLabel ==
    /\ pc \in {"FakeNews", "SkipFakeNews"} =>
         (pc = "FakeNews" <=> fact_check_trigger.label = NeedsFactCheck)
    /\ (pc = "Done" /\ http = 200) =>
         /\ Ran("fake_news") <=> fact_check_trigger.label = NeedsFactCheck
         /\ path["fake_news"] = "skip" <=> fact_check_trigger.label # NeedsFactCheck
    /\ (Ran("fact_check") /\ fact_check_trigger.label # NeedsFactCheck) =>
         calls["fake_news"] = 0

\* a finished request whose trigger label was a near-match took the skip branch
C1_Witness ==
    /\ pc = "Done"
    /\ http = 200
    /\ fact_check_trigger.label = "needs fact check"
    /\ path["fake_news"] = "skip"
    /\ calls["fake_news"] = 0

\* C2: in every completed run, a trigger label other than "Needs fact check"
\* gives fake_news_detection = {REAL, 0.0, "Skipped - No claims detected"}.
C2_SkippedRecord ==
    (pc = "Done" /\ http = 200 /\ fact_check_trigger.label # NeedsFactCheck) =>
        /\ fake_news_detection.label = "REAL"
        /\ fake_news_detection.confidence = JNum(0)
        /\ fake_news_detection.hasNote
        /\ fake_news_detection.note = "Skipped - No claims detected"

\* a finished request with a credential whose live trigger reply said no
C2_Witness ==
    /\ pc = "Done"
    /\ http = 200
    /\ api_token = "hf_token"
    /\ path["fact_check"] = "live"
    /\ fact_check_trigger.label = NoFactCheckNeeded
    /\ fake_news_detection.note = "Skipped - No claims detected"

\* C3: no stage call lets an exception escape, whatever the text and the
\* remote do; so a request whose extraction succeeded never answers with an
\* error, and once it has answered all three fields are set.
C3_StagesNeverRaise ==
    /\ pc \notin {"sentiment raised", "fact_check raised", "fake_news raised"}
    /\ \A st \in Stages : path[st] # "raise"
    /\ (pc = "Done" /\ http # 200) => \A st \in Stages : path[st] = "none"
    /\ (pc = "Done" /\ http = 200) =>
         /\ sentiment # Unset
         /\ fact_check_trigger # Unset
         /\ fake_news_detection # Unset

\* a request answered 200 although each of its three remote calls was made
\* and failed
C3_Witness ==
    /\ pc = "Done"
    /\ http = 200
    /\ \A st \in Stages : path[st] = "fallback" /\ calls[st] = 1

\* the fixed default of each stage
Default(st) ==
    CASE st = "sentiment" -> Result("Neutral", JNum(0))
      [] st = "fact_check" -> Result(NoFactCheckNeeded, JNum(0))
      [] st = "fake_news" -> Result("REAL", JNum(0))

\* the field a stage's result is stored in
Field(st) ==
    CASE st = "sentiment" -> sentiment
      [] st = "fact_check" -> fact_check_trigger
      [] st = "fake_news" -> fake_news_detection

\* every character of the text is whitespace
AllWhitespace(t) == \A i \in 1..Len(t) : t[i] \in {" ", "\t", "\n"}

\* C4: on an empty or whitespace-only text every stage returns its fixed
\* default without attempting a remote call, with or without a credential;
\* a whole request on such a text makes no remote call.
C4_BlankTextNoCall ==
    (pc # "call" /\ pc # "extract" /\ AllWhitespace(text)) =>
        /\ \A st \in Stages : calls[st] = 0
        /\ \A st \in Stages : Ran(st) => Field(st) = Default(st)
        /\ (pc = "Done" /\ http = 200) =>
             /\ sentiment = Default("sentiment")
             /\ fact_check_trigger = Default("fact_check")
             /\ path["fake_news"] = "skip"

\* a finished request on a whitespace-only text with a credential configured
C4_Witness ==
    /\ pc = "Done"
    /\ http = 200
    /\ text = <<" ", "\n">>
    /\ api_token = "hf_token"
    /\ sentiment = Default("sentiment")
    /\ \A st \in Stages : calls[st] = 0

\* the direct call of stage st has returned
Returns(st) == pc = st \o " returned"

\* C5 as stated: for each of the three stages, a result carries a note if
\* and only if it was produced by the stage's fallback (its except handler).
C5_NoteIffFallback_Original ==
    \A st \in Stages : Returns(st) => (Field(st).hasNote <=> path[st] = "fallback")

\* C5 amended: the fact-check trigger's result carries a note if and only if
\* it comes from its fallback; the results of the sentiment and fake-news
\* stages never carry a note, their fallback results included.
C5_NoteOnlyOnTriggerFallback ==
    /\ Returns("fact_check") =>
         (fact_check_trigger.hasNote <=> path["fact_check"] = "fallback")
    /\ Returns("sentiment") => ~sentiment.hasNote
    /\ Returns("fake_news") => ~fake_news_detection.hasNote

\* the trigger stage fell back after its remote call failed, and says so
C5_Witness ==
    /\ Returns("fact_check")
    /\ path["fact_check"] = "fallback"
    /\ calls["fact_check"] = 1
    /\ reply.cond = "timeout"
    /\ fact_check_trigger.hasNote

\* the query of the last direct call returned the decoded body: a
\* credential, HTTP 200, valid JSON, no "error" member
QueryReturned ==
    /\ ~NotToken(api_token)
    /\ reply.cond = "response"
    /\ reply.status = 200
    /\ reply.json
    /\ ~(reply.body.top = "dict" /\ reply.body.err.t # "absent")

\* a score that is no number
NonNumeric(sc) == sc.t \in {"str", "null", "list"} /\ sc.s \notin NumericStrings

\* a malformed or empty body of a classification reply: wrong top-level
\* type, empty list, first element no list or an empty one, a candidate
\* that is no record, a score that is no number
MalformedList(body) ==
    \/ body.top # "list"
    \/ Len(body.items) = 0
    \/ body.items[1].t # "list"
    \/ Len(body.items[1].preds) = 0
    \/ \E i \in 1..Len(body.items[1].preds) :
         \/ ~body.items[1].preds[i].rec
         \/ NonNumeric(body.items[1].preds[i].score)

\* a malformed or empty body of a zero-shot reply: wrong top-level type, a
\* missing labels or scores member, one that is no list or an empty one, a
\* first score that is no number
MalformedTrigger(body) ==
    \/ body.top # "dict"
    \/ body.labels.t # "list"
    \/ body.scores.t # "list"
    \/ Len(body.labels.items) = 0
    \/ Len(body.scores.items) = 0
    \/ NonNumeric(body.scores.items[1])

Malformed(st, body) ==
    IF st = "fact_check" THEN MalformedTrigger(body) ELSE MalformedList(body)

\* C6 as stated: for each stage, an HTTP 200 reply with a malformed or empty
\* body never makes the stage raise and always makes it return its
\* zero-confidence default: Neutral/0.0, "No fact check needed"/0.0, REAL/0.0.
C6_MalformedGivesDefault ==
    \A st \in Stages :
        /\ pc # st \o " raised"
        /\ (Returns(st) /\ ~AllWhitespace(text) /\ QueryReturned
              /\ Malformed(st, reply.body)) =>
               Field(st) = Default(st)

\* C7 as stated: every result of analyze_fact_check_trigger has one of the
\* two labels "Needs fact check" and "No fact check needed".
C7_TriggerLabelInEnum ==
    Ran("fact_check") => fact_check_trigger.label \in {NeedsFactCheck, NoFactCheckNeeded}

\* C8 as stated: every result of every stage, and every result in the final
\* record, has a confidence that is a number within [0, 1] (0..100 here).
C8_ConfidenceInUnitRange ==
    \A st \in Stages :
        (Ran(st) \/ path[st] = "skip") =>
            /\ Field(st).confidence.t = "num"
            /\ Field(st).confidence.n >= 0
            /\ Field(st).confidence.n <= 10 * 10

\* some keyword occurs in the text, letter case apart
OccursIgnoringCase(t) ==
    \E k \in 1..Len(controversial_keywords) :
        LET kw == controversial_keywords[k] IN
        \E i \in 0..(Len(t) - Len(kw)) :
            \A j \in 1..Len(kw) :
                \/ t[i + j] = kw[j]
                \/ \E a \in 1..26 : UpperLetters[a] = t[i + j] /\ LowerLetters[a] = kw[j]

\* C9: when the trigger stage falls back, a text that contains a keyword of
\* the list, letter case apart, gives {"Needs fact check", 0.7, "Triggered by
\* keyword-based fallback due to API unavailability"} and any other text
\* gives {"No fact check needed", 0.6, "Fallback analysis - API unavailable"};
\* the fallback never raises.
C9_KeywordFallback ==
    /\ pc # "fact_check raised"
    /\ path["fact_check"] = "fallback" =>
         IF OccursIgnoringCase(text)
         THEN fact_check_trigger =
                NotedResult(NeedsFactCheck, JNum(70),
                  "Triggered by keyword-based fallback due to API unavailability")
         ELSE fact_check_trigger =
                NotedResult(NoFactCheckNeeded, JNum(60),
                  "Fallback analysis - API unavailable")

\* the fallback matched "5g" in a text that spells it with a capital
C9_Witness ==
    /\ Returns("fact_check")
    /\ path["fact_check"] = "fallback"
    /\ text = <<" ", "5", "G">>
    /\ fact_check_trigger.label = NeedsFactCheck
    /\ fact_check_trigger.confidence = JNum(70)

\* the result of a stage's except handler on the text
FallbackResult(st, t) ==
    CASE st = "sentiment" -> Result("Neutral", JNum(0))
      [] st = "fake_news" -> Result("REAL", JNum(0))
      [] st = "fact_check" ->
           IF OccursIgnoringCase(t)
           THEN NotedResult(NeedsFactCheck, JNum(70),
                  "Triggered by keyword-based fallback due to API unavailability")
           ELSE NotedResult(NoFactCheckNeeded, JNum(60),
                  "Fallback analysis - API unavailable")

\* C10: with the credential unset or empty, each stage invoker fails before
\* any network call: a stage run on a non-blank text makes no remote call
\* and returns its fallback result.
C10_NoCredentialNoCall ==
    \A st \in Stages :
        (api_token \in {None, ""} /\ Ran(st)) =>
            /\ calls[st] = 0
            /\ ~AllWhitespace(text) =>
                 /\ path[st] = "fallback"
                 /\ Field(st) = FallbackResult(st, text)

\* the sentiment stage run with an empty credential while the endpoint
\* would have answered 200
C10_Witness ==
    /\ Returns("sentiment")
    /\ api_token = ""
    /\ ~AllWhitespace(text)
    /\ reply.cond = "response"
    /\ reply.status = 200
    /\ calls["sentiment"] = 0
    /\ path["sentiment"] = "fallback"

\* C11: in a request whose extraction succeeded the stages run in the order
\* Sentiment, FactCheckTrigger, then FakeNews or SkipFakeNews, then Done;
\* every step runs exactly the stage it stands at, a stage that has run is
\* never run again, no stage makes more than one remote call, and a stage
\* that fell back is followed by the next stage all the same.
C11_StageOrder ==
    [][/\ pc = "extract" => pc' \in {"Sentiment", "Done"}
       /\ pc = "Sentiment" =>
            /\ pc' = "FactCheckTrigger"
            /\ path["sentiment"] = "none" /\ path'["sentiment"] # "none"
            /\ path'["fact_check"] = "none" /\ path'["fake_news"] = "none"
       /\ pc = "FactCheckTrigger" =>
            /\ pc' \in {"FakeNews", "SkipFakeNews"}
            /\ path["fact_check"] = "none" /\ path'["fact_check"] # "none"
            /\ path'["sentiment"] = path["sentiment"]
            /\ path'["fake_news"] = "none"
       /\ pc \in {"FakeNews", "SkipFakeNews"} =>
            /\ pc' = "Done"
            /\ http' = 200
            /\ path["fake_news"] = "none"
            /\ path'["fake_news"] = "skip" <=> pc = "SkipFakeNews"
            /\ path'["sentiment"] = path["sentiment"]
            /\ path'["fact_check"] = path["fact_check"]
       /\ pc \in {"Sentiment", "FactCheckTrigger", "FakeNews", "SkipFakeNews", "Done"} =>
            /\ \A st \in Stages : calls'[st] \in {calls[st], calls[st] + 1}
            /\ \A st \in Stages : calls'[st] <= 1
            /\ \A st \in Stages : path'[st] # "raise"
      ]_vars

\* a finished request whose sentiment call was made and failed, and whose
\* two later stages ran on live replies
C11_Witness ==
    /\ pc = "Done"
    /\ http = 200
    /\ path["sentiment"] = "fallback"
    /\ calls["sentiment"] = 1
    /\ path["fact_check"] = "live"
    /\ path["fake_news"] = "live"

\* the remote of the last direct call answered 200 with a JSON object that
\* has an "error" member
ErrorBody ==
    /\ reply.cond = "response"
    /\ reply.status = 200
    /\ reply.json
    /\ reply.body.top = "dict"
    /\ reply.body.err.t # "absent"

\* C12: in every stage an HTTP 200 reply whose body has an error field is a
\* failure: the one remote call made ends in the stage's fallback result,
\* never in a result normalized from that body.
C12_ErrorBodyIsFailure ==
    \A st \in Stages :
        (Returns(st) /\ api_token \notin {None, ""} /\ ~AllWhitespace(text)
           /\ ErrorBody) =>
            /\ calls[st] = 1
            /\ path[st] = "fallback"
            /\ Field(st) = FallbackResult(st, text)

\* the trigger stage fell back on a 200 reply that held an error next to a
\* complete "Needs fact check" prediction
C12_Witness ==
    /\ Returns("fact_check")
    /\ ErrorBody
    /\ reply.body.labels = LList(<<NeedsFactCheck>>)
    /\ reply.body.scores = LList(<<JNum(81)>>)
    /\ path["fact_check"] = "fallback"
    /\ fact_check_trigger.label = NoFactCheckNeeded

\* C13: preprocess is idempotent: run on its own result it returns that
\* result unchanged, for every text.
C13_PreprocessIdempotent ==
    [][pc = "preprocessed" => processed_text' = processed_text]_vars

\* preprocess was run twice on a mention that goes on like a link, and the
\* user placeholder stood after both runs
C13_Witness ==
    /\ pc = "preprocessed twice"
    /\ text = <<"@", "h", "t", "t", "p">>
    /\ processed_text = <<"@", "u", "s", "e", "r">>

\* the remote of the last direct call answered 200 with a non-empty list
\* whose first element is a non-empty list of {label, score} records, the
\* labels strings and the scores numbers
WellFormedList ==
    /\ api_token \notin {None, ""}
    /\ ~AllWhitespace(text)
    /\ reply.cond = "response" /\ reply.status = 200 /\ reply.json
    /\ reply.body.top = "list"
    /\ Len(reply.body.items) > 0
    /\ reply.body.items[1].t = "list"
    /\ Len(reply.body.items[1].preds) > 0
    /\ \A i \in 1..Len(reply.body.items[1].preds) :
         LET c == reply.body.items[1].preds[i] IN
         c.rec /\ c.label.t = "str" /\ c.score.t = "num"

\* the positions of the candidates whose score no other candidate exceeds
TopPositions ==
    LET preds == reply.body.items[1].preds IN
    {i \in 1..Len(preds) : \A j \in 1..Len(preds) : preds[j].score.n <= preds[i].score.n}

\* LABEL_0, LABEL_1, LABEL_2 read as Negative, Neutral, Positive; any other
\* raw label as Neutral
SentimentOf(raw) ==
    CASE raw = "LABEL_0" -> "Negative"
      [] raw = "LABEL_2" -> "Positive"
      [] OTHER -> "Neutral"

\* C14: on a well-formed sentiment reply analyze_sentiment returns a
\* candidate of maximum score, its raw label mapped (LABEL_0 Negative,
\* LABEL_1 Neutral, LABEL_2 Positive, unknown Neutral) and its score as the
\* confidence; the sentiment label is always Negative, Neutral or Positive.
C14_SentimentTopCandidate ==
    Returns("sentiment") =>
        /\ sentiment.label \in {"Negative", "Neutral", "Positive"}
        /\ WellFormedList =>
             /\ path["sentiment"] = "live"
             /\ \E i \in TopPositions :
                  LET c == reply.body.items[1].preds[i] IN
                  sentiment = Result(SentimentOf(c.label.s), JNum(c.score.n))

\* Positive/0.91 returned for a reply whose second candidate has the
\* greater score
C14_Witness ==
    /\ Returns("sentiment")
    /\ WellFormedList
    /\ reply.body.items[1].preds =
         <<Cand(JStr("LABEL_0"), JNum(5)), Cand(JStr("LABEL_2"), JNum(91))>>
    /\ sentiment = Result("Positive", JNum(91))

\* a raw fake-news label read as the claim says: FAKE or REAL whatever the
\* case, else FAKE when it contains "fake" or "false", else REAL
FakeNewsOf(raw) ==
    CASE raw = <<"F","A","K","E">> -> "FAKE"
      [] raw = <<"f","a","k","e">> -> "FAKE"
      [] raw = <<"F","a","k","e","d">> -> "FAKE"
      [] raw = <<"F","a","l","s","e">> -> "FAKE"
      [] raw = <<"R","E","A","L">> -> "REAL"
      [] raw = <<"r","e","a","l">> -> "REAL"
      [] raw = <<"t","r","u","e">> -> "REAL"

\* C15: on a well-formed fake-news reply detect_fake_news returns a
\* candidate of maximum score, its label upper-cased if that gives FAKE or
\* REAL, else FAKE if the raw label contains "fake" or "false" whatever the
\* case and REAL if not, and its score as the confidence; the fake-news
\* label is always FAKE or REAL.
C15_FakeNewsTopCandidate ==
    Returns("fake_news") =>
        /\ fake_news_detection.label \in {"FAKE", "REAL"}
        /\ WellFormedList =>
             /\ path["fake_news"] = "live"
             /\ \E i \in TopPositions :
                  LET c == reply.body.items[1].preds[i] IN
                  fake_news_detection = Result(FakeNewsOf(c.label.cs), JNum(c.score.n))

\* FAKE/0.77 returned for the top label "Faked", which becomes neither FAKE
\* nor REAL in upper case
C15_Witness ==
    /\ Returns("fake_news")
    /\ WellFormedList
    /\ reply.body.items[1].preds =
         <<Cand(JText(REAL), JNum(5)), Cand(JText(<<"F","a","k","e","d">>), JNum(77))>>
    /\ fake_news_detection = Result("FAKE", JNum(77))

\* the remote of the last direct call answered 200 with an object that has
\* a labels list and a scores list and no error
LabelsAndScores ==
    /\ api_token \notin {None, ""}
    /\ ~AllWhitespace(text)
    /\ reply.cond = "response" /\ reply.status = 200 /\ reply.json
    /\ reply.body.top = "dict"
    /\ reply.body.err.t = "absent"
    /\ reply.body.labels.t = "list"
    /\ reply.body.scores.t = "list"

\* C16: on a trigger reply with labels and scores lists the stage returns
\* entry 0 of each, whichever entry has the greatest score, and the default
\* "No fact check needed"/0.0 when either list is empty; a request whose
\* trigger result is "No fact check needed"/0.81 ends with the synthesized
\* REAL/0.0/skipped fake-news record.
C16_TriggerIndexZero ==
    /\ (Returns("fact_check") /\ LabelsAndScores) =>
         LET labels == reply.body.labels.items
             scores == reply.body.scores.items
         IN IF Len(labels) = 0 \/ Len(scores) = 0
            THEN fact_check_trigger = Result("No fact check needed", JNum(0))
            ELSE scores[1].t = "num" =>
                   fact_check_trigger = Result(labels[1], JNum(scores[1].n))
    /\ (pc = "Done" /\ http = 200
          /\ fact_check_trigger = Result("No fact check needed", JNum(81))) =>
         /\ fake_news_detection =
              NotedResult("REAL", JNum(0), "Skipped - No claims detected")
         /\ calls["fake_news"] = 0

\* entry 0 returned although entry 1 has the greater score
C16_Witness ==
    /\ Returns("fact_check")
    /\ LabelsAndScores
    /\ reply.body.labels.items = <<"No fact check needed", "Needs fact check">>
    /\ reply.body.scores.items = <<JNum(19), JNum(81)>>
    /\ fact_check_trigger = Result("No fact check needed", JNum(19))

\* the failure of the taxonomy that an invoker's exception message stands for
FailureOf(msg) ==
    CASE msg = "HUGGINGFACE_API_TOKEN not found in environment variables" ->
           "MissingCredential"
      [] msg \in {"Rate limit exceeded. Please try again later or upgrade your plan.",
                  "Rate limit exceeded for fact check API. Please try again later.",
                  "Rate limit exceeded for fake news detection API. Please try again later."} ->
           "RateLimited"
      [] msg \in {"Invalid API token. Please check your HUGGINGFACE_API_TOKEN.",
                  "Invalid API token for fact check analysis.",
                  "Invalid API token for fake news detection."} ->
           "Unauthorized"
      [] msg = "Fact check model is currently overloaded. Please try again later." ->
           "ServiceOverloaded"
      [] msg \in {"API request timed out. Please try again.",
                  "Fact check API request timed out. Model may be overloaded.",
                  "Fake news detection API request timed out. Please try again."} ->
           "Timeout"
      [] msg \in {"Unable to connect to Hugging Face API. Check your internet connection.",
                  "Unable to connect to fact check API. Check your internet connection.",
                  "Unable to connect to fake news detection API. Check your internet connection."} ->
           "ConnectionFailure"
      [] msg \in {"Model is loading, please try again in a few seconds",
                  "Fact check model is loading, please try again in a few seconds",
                  "Fake news detection model is loading, please try again in a few seconds"} ->
           "ModelLoading"
      [] msg \in {"Hugging Face API error: ", "API error: ", "Fact check API error: ",
                  "Fake news API error: "} ->
           "UpstreamError"
      [] OTHER -> "Other"

\* the remote conditions the taxonomy names
NamedCondition ==
    \/ api_token \in {None, ""}
    \/ reply.cond \in {"timeout", "connection"}
    \/ reply.cond = "response" /\ reply.status # 200
    \/ ErrorBody /\ reply.body.err.t = "str"

\* the failure the taxonomy gives the condition of the last direct call
ExpectedFailure ==
    IF api_token \in {None, ""} THEN "MissingCredential"
    ELSE IF reply.cond = "timeout" THEN "Timeout"
    ELSE IF reply.cond = "connection" THEN "ConnectionFailure"
    ELSE IF reply.status = 429 THEN "RateLimited"
    ELSE IF reply.status = 401 THEN "Unauthorized"
    ELSE IF reply.status = 503 THEN "ServiceOverloaded"
    ELSE IF reply.status # 200 THEN "UpstreamError"
    ELSE IF reply.body.err.msg = <<"L","o","a","d","i","n","g">> THEN "ModelLoading"
    ELSE "UpstreamError"

\* C17 as stated: each of the three invokers fails with the failure of its
\* remote condition: MissingCredential, RateLimited (429), Unauthorized
\* (401), ServiceOverloaded (503), Timeout, ConnectionFailure, UpstreamError
\* (any other status), ModelLoading (a 200 error body that mentions loading).
C17_FailurePerCondition ==
    \A st \in Stages :
        (Returns(st) /\ ~AllWhitespace(text) /\ NamedCondition) =>
            FailureOf(logged) = ExpectedFailure

\* the fake-news endpoint of the last direct call answered 200 with a
\* well-formed candidate list to a call on a non-blank text
LiveCandidates ==
    /\ ~AllWhitespace(text)
    /\ QueryReturned
    /\ ~MalformedList(reply.body)

\* C18: in every completed run fake_news_detection.label is FAKE only if
\* the trigger label was exactly "Needs fact check" and the fake-news call
\* got a 200 reply with a well-formed candidate list; on every other path
\* (skip, empty input, no credential, remote failure, malformed reply) the
\* label is REAL and the confidence 0.0.
C18_FakeOnlyFromLiveReply ==
    /\ (pc = "Done" /\ http = 200) =>
         /\ fake_news_detection.label = "FAKE" =>
              /\ fact_check_trigger.label = "Needs fact check"
              /\ path["fake_news"] = "live"
              /\ calls["fake_news"] = 1
         /\ path["fake_news"] # "live" =>
              /\ fake_news_detection.label = "REAL"
              /\ fake_news_detection.confidence = JNum(0)
    /\ Returns("fake_news") =>
         /\ fake_news_detection.label = "FAKE" =>
              LiveCandidates /\ path["fake_news"] = "live"
         /\ ~LiveCandidates =>
              /\ fake_news_detection.label = "REAL"
              /\ fake_news_detection.confidence = JNum(0)

\* a finished request that answered FAKE from a live fake-news reply after
\* the trigger stage said "Needs fact check"
C18_Witness ==
    /\ pc = "Done"
    /\ http = 200
    /\ fact_check_trigger.label = "Needs fact check"
    /\ path["fake_news"] = "live"
    /\ calls["fake_news"] = 1
    /\ fake_news_detection.label = "FAKE"

====
